---- MODULE Spec2Model ----
(***************************************************************************)
(* Hindalco price-sheet downloader: the per-product CSV ledgers and the    *)
(* two scripts that maintain them.                                         *)
(*   src/main.py     process_date / update_csv_files (the batch script)    *)
(*   src/main_py.py  main / extract_data_from_pdf / update_csv_files       *)
(* Dates are day ordinals; a ledger row holds the date as the text that    *)
(* strftime('%Y-%m-%d') writes, a sequence of character codes.             *)
(***************************************************************************)
EXTENDS Integers, Sequences, FiniteSets, TLC

\* ------------------------------------------------------------------ bounds
\* Day ordinals 1..MaxDate are the dates a run can be asked to process.
MaxDate == 2

\* ---------------------------------------------------------------- catalog
\* The catalog, cut down to two products: every loop over PRODUCTS treats
\* its elements alike.
PRODUCTS == {1, 2}

Dates == 1..MaxDate
\* One more date, so that a date can have ledger entries on both sides of it.
HDates == 1..(MaxDate + 1)
\* The prices a day's sheet can show (main.py keeps numbers above 10).
Prices == {11, 12}

\* Python's None, and a value that is not None.
None == [kind |-> "None"]
Some(x) == [kind |-> "Some", val |-> x]

\* ------------------------------------------------------------- calendar
\* Ordinal 1 is Tuesday 2024-12-31 and ordinal 2 is 2025-01-01: the range
\* crosses the year's end, so the order of the fields in a date's text
\* matters.
DateOf(n) ==
  IF n <= 1 THEN [year |-> 2024, month |-> 12, day |-> 30 + n]
            ELSE [year |-> 2025, month |-> 1, day |-> n - 1]

\* Character codes: '-' is 45, '0'..'9' are 48..57.
Digit(k) == 48 + k
Dash == 45

\* date.strftime('%Y-%m-%d')
strftime(date) ==
  << Digit(date.year \div 1000), Digit((date.year \div 100) % 10),
     Digit((date.year \div 10) % 10), Digit(date.year % 10), Dash,
     Digit(date.month \div 10), Digit(date.month % 10), Dash,
     Digit(date.day \div 10), Digit(date.day % 10) >>

date_str(n) == strftime(DateOf(n))

\* pd.to_datetime on a 'YYYY-MM-DD' text
to_datetime(s) ==
  [year  |-> (s[1] - 48) * 1000 + (s[2] - 48) * 100 + (s[3] - 48) * 10 + (s[4] - 48),
   month |-> (s[6] - 48) * 10 + (s[7] - 48),
   day   |-> (s[9] - 48) * 10 + (s[10] - 48)]

\* datetime order
DateLeq(a, b) ==
  \/ a.year < b.year
  \/ a.year = b.year /\ a.month < b.month
  \/ a.year = b.year /\ a.month = b.month /\ a.day <= b.day

\* str order (Python compares strings code point by code point)
RECURSIVE StrLeq(_, _)
StrLeq(s, t) ==
  IF s = <<>> THEN TRUE
  ELSE IF t = <<>> THEN FALSE
  ELSE IF Head(s) # Head(t) THEN Head(s) < Head(t)
  ELSE StrLeq(Tail(s), Tail(t))

\* ------------------------------------------------------------ DataFrame
\* A frame is a sequence of rows [date, rate]; a file is a frame on disk or
\* absent.
NoFile == [exists |-> FALSE, rows |-> <<>>]
File(rows) == [exists |-> TRUE, rows |-> rows]

HasDate(df, s) == \E i \in 1..Len(df) : df[i].date = s

\* df.loc[df['date'] == s, 'rate'] = r
SetRate(df, s, r) ==
  [i \in 1..Len(df) |-> IF df[i].date = s THEN [df[i] EXCEPT !.rate = r] ELSE df[i]]

\* The order sort_values uses on the 'date' column: datetime64 values in
\* main.py (the column is converted first), str values in main_py.py.
KeyLeq(a, b, kind) ==
  IF kind = "datetime" THEN DateLeq(a, b) ELSE StrLeq(a, b)

\* df.sort_values('date'): rows in ascending order of the date column
RECURSIVE InsertSorted(_, _, _)
InsertSorted(df, row, kind) ==
  IF df = <<>> THEN <<row>>
  ELSE IF KeyLeq(row.date, Head(df).date, kind) THEN <<row>> \o df
  ELSE <<Head(df)>> \o InsertSorted(Tail(df), row, kind)

RECURSIVE sort_values(_, _)
sort_values(df, kind) ==
  IF df = <<>> THEN <<>>
  ELSE InsertSorted(sort_values(Tail(df), kind), Head(df), kind)

\* df['date'] = pd.to_datetime(df['date'])
ToDatetimeCol(df) == [i \in 1..Len(df) |-> [df[i] EXCEPT !.date = to_datetime(df[i].date)]]

\* df['date'] = df['date'].dt.strftime('%Y-%m-%d')
StrftimeCol(df) == [i \in 1..Len(df) |-> [df[i] EXCEPT !.date = strftime(df[i].date)]]

\* ------------------------------------------------------------------ state
VARIABLES
  csv,            \* the CSV directory: [PRODUCTS -> file], one ledger per product
  call,           \* the last operation and its inputs (history), or None
  doc,            \* the PDF handed to extract_data_from_pdf
  pc,             \* main_py.py extract_data_from_pdf: the position in its body
  product_rates,  \* main_py.py extract_data_from_pdf: its local product_rates
  invoked,        \* the strategies called so far, in order (history)
  result          \* what extract_data_from_pdf returned, or Pending

\* A run of main.py main() or of manual_test_script.py
\* download_historical_data(): the loop over the dates and, inside it, the
\* body of process_date.
VARIABLES
  script,                \* the script that runs
  at,                    \* the position in the run
  stored,                \* PDF_DIR: per date, the file at save_path
  dates,                 \* the list of dates to process
  cur,                   \* the index in dates of the date in process
  cand,                  \* the index in urls_to_try of the next candidate
  fetched,               \* the fetches of the date in process, in order
  resp,                  \* the response to the last fetch
  downloaded,            \* a stored or downloaded document is used
  extracted_data,        \* the argument of update_csv_files
  wp,                    \* update_csv_files: the product being written
  frame,                 \* update_csv_files: the frame handed to to_csv
  partial,               \* the ledger files opened for writing, not yet written
  successful_downloads,  \* the counter of main()
  summary,               \* the success rate of the summary, once emitted
  status                 \* the exit status of the process, once it has ended

\* url_checker.py check_recent_availability(): the probes of the thread pool.
VARIABLES
  server,           \* what the site answers to the request of each probe
  all_urls,         \* the (date, url) pairs to check
  futures,          \* per submitted probe, Pending or what check_url returned
  yielded,          \* the futures as_completed has handed to the caller
  available_files   \* the list the caller builds

probevars == <<server, all_urls, futures, yielded, available_files>>

runvars == <<script, at, stored, dates, cur, cand, fetched, resp, downloaded,
             extracted_data, wp, frame, partial, successful_downloads, summary, status,
             probevars>>

vars == <<csv, call, doc, pc, product_rates, invoked, result, runvars>>

Pending == [kind |-> "Pending"]
NoCall == [op |-> "none"]

\* No run in progress: the run variables at rest.
ProbeIdle ==
  /\ server = <<>>
  /\ all_urls = <<>>
  /\ futures = <<>>
  /\ yielded = {}
  /\ available_files = <<>>

RunIdle ==
  /\ ProbeIdle
  /\ script = "none"
  /\ at = "idle"
  /\ stored = <<>>
  /\ dates = <<>>
  /\ cur = 0
  /\ cand = 0
  /\ fetched = <<>>
  /\ resp = None
  /\ downloaded = FALSE
  /\ extracted_data = None
  /\ wp = 0
  /\ frame = <<>>
  /\ partial = {}
  /\ successful_downloads = 0
  /\ summary = None
  /\ status = Pending

\* A mapping from some products to the values of V.
PartialMaps(V) == UNION {[S -> V] : S \in SUBSET PRODUCTS}
NoRates == [p \in {} |-> 0]

\* The extracted values of a day.
RatesMaps == PartialMaps(Prices)

\* The history keeps the last call and its inputs, or nothing.
Record(full, rec) == IF full THEN rec ELSE NoCall

\* ---------------------------------------------- main.py update_csv_files
\* Load existing data or create new DataFrame; a read that raises gives an
\* empty frame.
LoadFrame(file, readfail) ==
  IF file.exists THEN (IF readfail THEN <<>> ELSE file.rows) ELSE <<>>

\* The rate of a new record.
NewRate(df, data, p) ==
  IF p \in DOMAIN data.rates THEN data.rates[p]
  ELSE IF Len(df) > 0 THEN df[Len(df)].rate
  ELSE 0

\* Update the existing record, or add a new one.
Upsert(df, data, p) ==
  IF HasDate(df, data.date)
  THEN IF p \in DOMAIN data.rates THEN SetRate(df, data.date, data.rates[p]) ELSE df
  ELSE Append(df, [date |-> data.date, rate |-> NewRate(df, data, p)])

\* (mutant) the frame is saved as it is, unsorted
SortAndFormat_Unsorted(df) == df

\* Sort by date and save.
SortAndFormat(df) ==
  StrftimeCol(sort_values(ToDatetimeCol(df), "datetime"))

UpdateProduct(file, data, p, readfail) ==
  File(SortAndFormat(Upsert(LoadFrame(file, readfail), data, p)))

\* update_csv_files(data): readfail is the set of products whose pd.read_csv
\* raises in this call.
update_csv_files(files, data, readfail) ==
  IF data.date = <<>> THEN files
  ELSE [p \in PRODUCTS |-> UpdateProduct(files[p], data, p, p \in readfail)]

\* ------------------------------------------------- main.py process_date
\* found: a stored valid PDF or a successful download; rates: what
\* extract_data_from_pdf returned for it. Without a PDF the CSVs are still
\* updated, with empty data.
process_date(d, found, rates, readfail, full) ==
  /\ ~found => rates = NoRates
  /\ readfail \subseteq {p \in PRODUCTS : csv[p].exists}
  /\ csv' = update_csv_files(csv, [date |-> date_str(d), rates |-> rates], readfail)
  /\ call' = Record(full, [op |-> "process_date", date |-> d, rates |-> rates,
                           readfail |-> readfail, found |-> found])
  /\ UNCHANGED <<doc, pc, product_rates, invoked, result>>
  /\ UNCHANGED runvars

\* ============================================================ main_py.py
\* The 5-6 digit numbers a sheet can show, and the values main_py.py puts in
\* when nothing was found (PRODUCTS[0], PRODUCTS[1]).
DocPrices == {250000, 260000}
FallbackRates == [p \in PRODUCTS |-> IF p = 1 THEN 252500 ELSE 251000]

\* The numbers manual_extract_tables can take from a line: whatever digits
\* follow Rs or INR, the prices of the sheet or an amount such as Rs. 50.
ManualPrices == DocPrices \cup {50}

\* ------------------------------------- main_py.py extract_data_from_pdf
\* A document is what each strategy finds in it: the regular expressions
\* and the PDF libraries are outside the program. readfail: PyPDF2 raises;
\* tabula.raises: tabula or the handling of one of its rows raises, after
\* tabula.rates were found; manual.raises: int() raises on a price text
\* such as ',' after manual.rates were found. The direct, table and text
\* strategies take numbers of 5 or 6 digits; the line scan takes any number.
DocsPy ==
  [readfail : BOOLEAN,
   direct   : PartialMaps(DocPrices),
   tabula   : [raises : BOOLEAN, rates : PartialMaps(DocPrices)],
   text     : PartialMaps(DocPrices),
   manual   : [raises : BOOLEAN, rates : PartialMaps(ManualPrices)]]

extract_prices_directly(d) == d.direct

\* Any exception gives None.
extract_with_tabula(d) == IF d.tabula.raises THEN None ELSE Some(d.tabula.rates)

extract_with_text_search(d) == d.text

\* (mutant) the next strategy is tried whatever was found
Incomplete_Always(rates) == TRUE

\* not product_rates or len(product_rates) < len(PRODUCTS)
Incomplete(rates) == DOMAIN rates # PRODUCTS

\* for product, rate in new.items(): product_rates[product] = rate
MergeOver(rates, new) ==
  [p \in DOMAIN rates \cup DOMAIN new |-> IF p \in DOMAIN new THEN new[p] ELSE rates[p]]

\* (mutant) the later strategy's values replace the ones already there
MergeMissing_Overwrite(rates, new) ==
  [p \in DOMAIN rates \cup DOMAIN new |-> IF p \in DOMAIN new THEN new[p] ELSE rates[p]]

\* for product, rate in new.items():
\*     if product not in product_rates: product_rates[product] = rate
MergeMissing(rates, new) ==
  [p \in DOMAIN rates \cup DOMAIN new |-> IF p \in DOMAIN rates THEN rates[p] ELSE new[p]]

\* Merge results, preferring tabula results over direct extraction.
MergeTabula(rates, tabula_rates) ==
  IF tabula_rates # None /\ tabula_rates.val # NoRates
  THEN MergeOver(rates, tabula_rates.val) ELSE rates

\* The value returned when no exception was raised.
Finalize(rates, date) ==
  IF rates = NoRates THEN Some([date |-> date, rates |-> FallbackRates])
  ELSE Some([date |-> date, rates |-> rates])

\* The steps of extract_data_from_pdf, one strategy each.
ReadText ==
  /\ pc = "start"
  /\ IF doc.readfail
     THEN /\ pc' = "done"
          /\ result' = None
     ELSE /\ pc' = "direct"
          /\ result' = result
  /\ UNCHANGED <<csv, call, doc, product_rates, invoked>>
  /\ UNCHANGED runvars

Direct ==
  /\ pc = "direct"
  /\ product_rates' = extract_prices_directly(doc)
  /\ invoked' = Append(invoked, "direct")
  /\ pc' = "tabula"
  /\ UNCHANGED <<csv, call, doc, result>>
  /\ UNCHANGED runvars

Tabula ==
  /\ pc = "tabula"
  /\ IF Incomplete(product_rates)
     THEN /\ product_rates' = MergeTabula(product_rates, extract_with_tabula(doc))
          /\ invoked' = Append(invoked, "tabula")
     ELSE UNCHANGED <<product_rates, invoked>>
  /\ pc' = "text"
  /\ UNCHANGED <<csv, call, doc, result>>
  /\ UNCHANGED runvars

TextSearch ==
  /\ pc = "text"
  /\ IF Incomplete(product_rates)
     THEN /\ product_rates' = MergeMissing(product_rates, extract_with_text_search(doc))
          /\ invoked' = Append(invoked, "text")
     ELSE UNCHANGED <<product_rates, invoked>>
  /\ pc' = "manual"
  /\ UNCHANGED <<csv, call, doc, result>>
  /\ UNCHANGED runvars

Manual ==
  /\ pc = "manual"
  /\ IF Incomplete(product_rates)
     THEN /\ invoked' = Append(invoked, "manual")
          /\ IF doc.manual.raises
             THEN /\ pc' = "done"
                  /\ result' = None
                  /\ UNCHANGED product_rates
             ELSE /\ product_rates' = MergeMissing(product_rates, doc.manual.rates)
                  /\ pc' = "final"
                  /\ result' = result
     ELSE /\ pc' = "final"
          /\ UNCHANGED <<product_rates, invoked, result>>
  /\ UNCHANGED <<csv, call, doc>>
  /\ UNCHANGED runvars

Final ==
  /\ pc = "final"
  /\ result' = Finalize(product_rates, date_str(1))
  /\ pc' = "done"
  /\ UNCHANGED <<csv, call, doc, product_rates, invoked>>
  /\ UNCHANGED runvars

InitExtractPy ==
  /\ csv = [p \in PRODUCTS |-> NoFile]
  /\ call = NoCall
  /\ doc \in DocsPy
  /\ pc = "start"
  /\ product_rates = NoRates
  /\ invoked = <<>>
  /\ result = Pending
  /\ RunIdle

NextExtractPy == ReadText \/ Direct \/ Tabula \/ TextSearch \/ Manual \/ Final

\* main_py.py extract_data_from_pdf on any document.
SpecExtractPy == InitExtractPy /\ [][NextExtractPy]_vars

\* extract_data_from_pdf as one function of the document.
extract_data_from_pdf_py(d, date) ==
  IF d.readfail THEN None
  ELSE LET r1 == extract_prices_directly(d)
           r2 == IF Incomplete(r1) THEN MergeTabula(r1, extract_with_tabula(d)) ELSE r1
           r3 == IF Incomplete(r2) THEN MergeMissing(r2, extract_with_text_search(d)) ELSE r2
       IN IF Incomplete(r3) /\ d.manual.raises THEN None
          ELSE Finalize(IF Incomplete(r3) THEN MergeMissing(r3, d.manual.rates) ELSE r3, date)

\* Every value extract_data_from_pdf can return (with the date left out).
ExtractResultsPy == {extract_data_from_pdf_py(d, <<>>) : d \in DocsPy}

\* ------------------------------------------ main_py.py update_csv_files
NaN == -1

\* df['rate'].fillna(method='ffill')
RECURSIVE ffill(_, _)
ffill(df, last) ==
  IF df = <<>> THEN <<>>
  ELSE LET r == IF Head(df).rate = NaN THEN last ELSE Head(df).rate
       IN <<[Head(df) EXCEPT !.rate = r]>> \o ffill(Tail(df), r)

\* The last available rate, or 0.
NewRatePy(df, rates, p) ==
  IF p \in DOMAIN rates THEN rates[p]
  ELSE IF Len(df) > 0 THEN df[Len(df)].rate
  ELSE 0

\* One product's file after the loop body.
UpdateProductPy(file, date, rates, p) ==
  IF file.exists
  THEN LET df == file.rows
           df1 == IF HasDate(df, date)
                  THEN IF p \in DOMAIN rates THEN SetRate(df, date, rates[p]) ELSE df
                  ELSE Append(df, [date |-> date, rate |-> NewRatePy(df, rates, p)])
       IN File(ffill(sort_values(df1, "str"), NaN))
  ELSE File(IF p \in DOMAIN rates THEN <<[date |-> date, rate |-> rates[p]]>> ELSE <<>>)

\* update_csv_files(product_rates)
update_csv_files_py(files, rates_arg) ==
  IF rates_arg = None
  THEN [p \in PRODUCTS |-> IF files[p].exists THEN files[p] ELSE File(<<>>)]
  ELSE IF rates_arg.val.date = <<>> THEN files
  ELSE [p \in PRODUCTS |->
          UpdateProductPy(files[p], rates_arg.val.date, rates_arg.val.rates, p)]

\* ------------------------------------------------------ main_py.py main
\* source: "stored" (today's PDF is on disk), "today" (downloaded),
\* "yesterday" (today's download failed, yesterday's succeeded and is then
\* the date processed), "none" (no download: no updates to the CSV files).
main_py(today, source, extracted, full) ==
  LET date == IF source = "yesterday" THEN today - 1 ELSE today
      rates_arg == IF extracted = None THEN None
                   ELSE Some([extracted.val EXCEPT !.date = date_str(date)])
  IN /\ source = "none" => extracted = None
     /\ csv' = IF source = "none" THEN csv
               ELSE update_csv_files_py(csv, rates_arg)
     /\ call' = Record(full, [op |-> "main_py", today |-> today, date |-> date,
                              source |-> source, extracted |-> extracted])
     /\ UNCHANGED <<doc, pc, product_rates, invoked, result>>
     /\ UNCHANGED runvars

InitLedger ==
  /\ csv = [p \in PRODUCTS |-> NoFile]
  /\ call = NoCall
  /\ doc = None
  /\ pc \in {"main.py", "main_py.py"}
  /\ product_rates = NoRates
  /\ invoked = <<>>
  /\ result = Pending
  /\ RunIdle

\* pc names the script that owns the CSV directory.
NextMain(full, D) ==
  \E d \in D, found \in BOOLEAN, rates \in RatesMaps, readfail \in SUBSET PRODUCTS :
    /\ pc = "main.py"
    /\ process_date(d, found, rates, readfail, full)

NextMainPy(full, D) ==
  \E today \in D, source \in {"stored", "today", "yesterday", "none"},
     extracted \in ExtractResultsPy :
    /\ pc = "main_py.py"
    /\ source = "yesterday" => today - 1 \in D
    /\ main_py(today, source, extracted, full)

\* Either script over any sequence of dates, without history.
Spec == InitLedger /\ [][NextMain(FALSE, Dates) \/ NextMainPy(FALSE, Dates)]_vars

InitMain == InitLedger /\ pc = "main.py"
InitMainPy == InitLedger /\ pc = "main_py.py"

\* main.py over HDates, with the inputs of the last call kept.
SpecH == InitMain /\ [][NextMain(TRUE, HDates)]_vars

\* main_py.py over Dates, with the inputs of the last call kept.
SpecPyH == InitMainPy /\ [][NextMainPy(TRUE, Dates)]_vars

\* ==================================================== main.py: the run
\* The day number of a date, counted from Monday 2024-12-30, and its day of
\* the week (Monday is 0, Saturday 5, Sunday 6).
toordinal(date) == IF date.year = 2024 THEN date.day - 30 ELSE date.day + 1
weekday(date) == toordinal(date) % 7

\* The days a run can be asked for: Thursday 2025-01-02, Friday, Saturday
\* and the days after.
RunDays == 3..(MaxDate + 3)

\* ------------------------------------------------------ candidate URLs
MonthShort(date) == IF date.month = 12 THEN "dec" ELSE "jan"
MonthFull(date) == IF date.month = 12 THEN "december" ELSE "january"
MonthNum(date) == IF date.month = 12 THEN "12" ELSE "01"

\* (mutant) the day without zero padding
Pad2_NoPadding(day) ==
  [digits |-> IF day < 10 THEN <<Digit(day)>>
              ELSE <<Digit(day \div 10), Digit(day % 10)>>,
   suffix |-> ""]

\* {day:02d}, {day} and {day}{suffix}
Pad2(day) == [digits |-> <<Digit(day \div 10), Digit(day % 10)>>, suffix |-> ""]
Plain(day) ==
  [digits |-> IF day < 10 THEN <<Digit(day)>>
              ELSE <<Digit(day \div 10), Digit(day % 10)>>,
   suffix |-> ""]
OrdinalSuffix(day) ==
  IF 10 <= day % 100 /\ day % 100 <= 20 THEN "th"
  ELSE CASE day % 10 = 1 -> "st"
         [] day % 10 = 2 -> "nd"
         [] day % 10 = 3 -> "rd"
         [] OTHER -> "th"
WithSuffix(day) == [Plain(day) EXCEPT !.suffix = OrdinalSuffix(day)]

\* https://www.hindalco.com/{dir}/{stem}{day}{sep}{month}{sep}{year}.pdf
Url(dir, stem, day, sep, month, year) ==
  [dir |-> dir, stem |-> stem, day |-> day, sep |-> sep, month |-> month,
   year |-> year]

get_pdf_url(date) ==
  Url("Upload/PDF", "primary-ready-reckoner-", Pad2(date.day), "-",
      MonthShort(date), date.year)

get_alternative_pdf_urls(date) ==
  LET d == date.day
      y == date.year
      prr == "primary-ready-reckoner-"
  IN << Url("upload/pdf", prr, Pad2(d), "-", MonthShort(date), y),
        Url("Upload/Pdf", prr, Pad2(d), "-", MonthShort(date), y),
        Url("Upload/PDF", prr, WithSuffix(d), "-", MonthShort(date), y),
        Url("upload/pdf", prr, WithSuffix(d), "-", MonthShort(date), y),
        Url("Upload/PDF", prr, Plain(d), "-", MonthShort(date), y),
        Url("upload/pdf", prr, Plain(d), "-", MonthShort(date), y),
        Url("Upload/PDF", prr, Pad2(d), "-", MonthFull(date), y),
        Url("upload/pdf", prr, Pad2(d), "-", MonthFull(date), y),
        Url("Upload/PDF", prr, Pad2(d), "-", MonthNum(date), y),
        Url("upload/pdf", prr, Pad2(d), "-", MonthNum(date), y),
        Url("Upload/PDF", prr, Pad2(d), "_", MonthShort(date), y),
        Url("Upload/PDF", "primary_ready_reckoner_", Pad2(d), "_", MonthShort(date), y),
        Url("Upload/PDF", "ready-reckoner-", Pad2(d), "-", MonthShort(date), y),
        Url("Upload/PDF", "primary-reckoner-", Pad2(d), "-", MonthShort(date), y),
        Url("Upload/PDF", "primary-rates-", Pad2(d), "-", MonthShort(date), y) >>

\* (mutant) the alternatives before the primary URL
urls_to_try_AlternativesFirst(date) ==
  get_alternative_pdf_urls(date) \o <<get_pdf_url(date)>>

urls_to_try(date) == <<get_pdf_url(date)>> \o get_alternative_pdf_urls(date)

\* ---------------------------------------------------------- download_pdf
\* What requests.get answers: an exception (connection error, timeout, or
\* raise_for_status on a non-success status), or a body with its
\* content-type header, its first bytes and its size.
Responses ==
  {[raises |-> TRUE, ctype_pdf |-> FALSE, sig_pdf |-> FALSE, big |-> FALSE]}
  \cup [raises : {FALSE}, ctype_pdf : BOOLEAN, sig_pdf : BOOLEAN, big : BOOLEAN]

\* The file at save_path: "none", or a PDF that check_pdf_validity accepts
\* ("valid") or rejects ("invalid").
Files == {"none", "valid", "invalid"}

\* download_pdf(url, save_path): what it returns and the file it leaves.
download_pdf(r, file) ==
  IF r.raises THEN [ok |-> FALSE, file |-> "none"]
  ELSE IF ~r.ctype_pdf /\ ~r.sig_pdf THEN [ok |-> FALSE, file |-> file]
  ELSE IF r.big
       THEN [ok |-> TRUE, file |-> IF r.sig_pdf THEN "valid" ELSE "invalid"]
       ELSE [ok |-> FALSE, file |-> "none"]

\* (mutant) no stored file is taken as valid
check_pdf_validity_Never(file) == FALSE

check_pdf_validity(file) == file = "valid"

\* ------------------------------------------------------ the dates to process
\* main.py main(): the dates from start_date to end_date, weekends skipped.
RECURSIVE WeekdaysIn(_, _)
WeekdaysIn(current_date, end_date) ==
  IF current_date > end_date THEN <<>>
  ELSE (IF weekday(DateOf(current_date)) < 5 THEN <<current_date>> ELSE <<>>)
       \o WeekdaysIn(current_date + 1, end_date)

\* manual_test_script.py: the list of dates between start and end date.
RECURSIVE generate_date_range(_, _)
generate_date_range(current, end_date) ==
  IF current > end_date THEN <<>>
  ELSE <<current>> \o generate_date_range(current + 1, end_date)

\* What extract_data_from_pdf finds in the PDF of a day.
RunRates == {NoRates, [p \in PRODUCTS |-> 11], [p \in {1} |-> 12]}

\* (successful_downloads / total_dates) * 100, as a fraction.
success_rate(successful, total_dates) ==
  IF total_dates > 0 THEN [num |-> successful * 100, den |-> total_dates]
  ELSE [num |-> 0, den |-> 1]

exit_code(rate, total_dates) ==
  IF rate.num > 0 \/ total_dates = 0 THEN 0 ELSE 1

\* What a run of main.py leaves alone: the variables of main_py.py's
\* extraction and of url_checker.py.
extractvars == <<call, doc, pc, product_rates, invoked, result, probevars>>

\* The PDFs on disk when the run starts: at most one, left by an earlier run.
StoredInit ==
  {f \in [RunDays -> Files] : Cardinality({d \in RunDays : f[d] # "none"}) <= 1}

InitRun ==
  /\ csv = [p \in PRODUCTS |-> NoFile]
  /\ call = NoCall
  /\ doc = None
  /\ pc = "run"
  /\ product_rates = NoRates
  /\ invoked = <<>>
  /\ result = Pending
  /\ ProbeIdle
  /\ script \in {"main.py", "manual_test_script.py"}
  /\ at = "start"
  /\ stored \in StoredInit
  /\ dates = <<>>
  /\ cur = 0
  /\ cand = 0
  /\ fetched = <<>>
  /\ resp = None
  /\ downloaded = FALSE
  /\ extracted_data = None
  /\ wp = 0
  /\ frame = <<>>
  /\ partial = {}
  /\ successful_downloads = 0
  /\ summary = None
  /\ status = Pending

\* Determine the date range and generate the list of dates to process.
StartRun(start_date, end_date) ==
  /\ at = "start"
  /\ dates' = IF script = "main.py" THEN WeekdaysIn(start_date, end_date)
              ELSE generate_date_range(start_date, end_date)
  /\ cur' = 1
  /\ at' = "loop"
  /\ UNCHANGED <<csv, extractvars, script, stored, cand, fetched, resp,
                 downloaded, extracted_data, wp, frame, partial,
                 successful_downloads, summary, status>>

\* process_date: the file already exists and is valid; it is extracted again.
UseStored(rates) ==
  /\ at = "loop"
  /\ cur <= Len(dates)
  /\ check_pdf_validity(stored[dates[cur]])
  /\ extracted_data' = [date |-> date_str(dates[cur]), rates |-> rates]
  /\ downloaded' = TRUE
  /\ wp' = 1
  /\ at' = "update"
  /\ UNCHANGED <<csv, extractvars, script, stored, dates, cur, cand, fetched,
                 resp, frame, partial, successful_downloads, summary, status>>

\* process_date: no valid file; try to download.
BeginDownload ==
  /\ at = "loop"
  /\ cur <= Len(dates)
  /\ ~check_pdf_validity(stored[dates[cur]])
  /\ cand' = 1
  /\ at' = "fetch"
  /\ UNCHANGED <<csv, extractvars, script, stored, dates, cur, fetched, resp,
                 downloaded, extracted_data, wp, frame, partial,
                 successful_downloads, summary, status>>

\* One turn of the loop over urls_to_try: the download and, when it
\* succeeded, the extraction.
TryUrl(r, rates) ==
  LET d == dates[cur]
      urls == urls_to_try(DateOf(d))
      res == download_pdf(r, stored[d])
  IN /\ at = "fetch"
     /\ cand <= Len(urls)
     /\ (~res.ok \/ res.file = "invalid") => rates = NoRates
     /\ fetched' = Append(fetched, [url |-> urls[cand], ok |-> res.ok])
     /\ resp' = r
     /\ stored' = [stored EXCEPT ![d] = res.file]
     /\ IF res.ok
        THEN /\ extracted_data' = [date |-> date_str(d), rates |-> rates]
             /\ downloaded' = TRUE
             /\ wp' = 1
             /\ at' = "update"
             /\ cand' = cand
        ELSE /\ cand' = cand + 1
             /\ UNCHANGED <<extracted_data, downloaded, wp, at>>
     /\ UNCHANGED <<csv, extractvars, script, dates, cur, frame, partial,
                    successful_downloads, summary, status>>

\* No PDF found for the date: still update the CSVs, with empty data.
NotFound ==
  /\ at = "fetch"
  /\ cand > Len(urls_to_try(DateOf(dates[cur])))
  /\ extracted_data' = [date |-> date_str(dates[cur]), rates |-> NoRates]
  /\ downloaded' = FALSE
  /\ wp' = 1
  /\ at' = "update"
  /\ UNCHANGED <<csv, extractvars, script, stored, dates, cur, cand, fetched,
                 resp, frame, partial, successful_downloads, summary, status>>

\* update_csv_files, one product: the frame is loaded, updated and sorted,
\* and to_csv opens the file for writing, which empties it. An exception
\* (unwritable path) is caught nowhere and ends the process.
OpenCsv(raises) ==
  /\ at = "update"
  /\ wp \in PRODUCTS
  /\ IF raises
     THEN /\ at' = "aborted"
          /\ status' = Some(1)
          /\ UNCHANGED <<csv, frame, partial>>
     ELSE /\ frame' = UpdateProduct(csv[wp], extracted_data, wp, FALSE).rows
          /\ csv' = [csv EXCEPT ![wp] = File(<<>>)]
          /\ partial' = {wp}
          /\ at' = "write"
          /\ status' = status
  /\ UNCHANGED <<extractvars, script, stored, dates, cur, cand, fetched, resp,
                 downloaded, extracted_data, wp, successful_downloads, summary>>

\* to_csv writes the rows and closes the file, or raises (disk full).
WriteCsv(raises) ==
  /\ at = "write"
  /\ IF raises
     THEN /\ at' = "aborted"
          /\ status' = Some(1)
          /\ UNCHANGED <<csv, frame, partial, wp>>
     ELSE /\ csv' = [csv EXCEPT ![wp] = File(frame)]
          /\ frame' = <<>>
          /\ partial' = {}
          /\ wp' = wp + 1
          /\ at' = "update"
          /\ status' = status
  /\ UNCHANGED <<extractvars, script, stored, dates, cur, cand, fetched, resp,
                 downloaded, extracted_data, successful_downloads, summary>>

\* (mutant) every processed date is counted
count_success_Always(successful, returned) == successful + 1

\* if process_date(date, logger): successful_downloads += 1
count_success(successful, returned) ==
  successful + (IF returned THEN 1 ELSE 0)

\* process_date returns, and main() counts the successful download.
Return ==
  /\ at = "update"
  /\ wp \notin PRODUCTS
  /\ successful_downloads' = count_success(successful_downloads, downloaded)
  /\ cur' = cur + 1
  /\ cand' = 0
  /\ fetched' = <<>>
  /\ resp' = None
  /\ downloaded' = FALSE
  /\ extracted_data' = None
  /\ wp' = 0
  /\ at' = "loop"
  /\ UNCHANGED <<csv, extractvars, script, stored, dates, frame, partial,
                 summary, status>>

\* main.py main(): the summary and the exit code.
Summary ==
  LET total_dates == Len(dates)
      rate == success_rate(successful_downloads, total_dates)
  IN /\ script = "main.py"
     /\ at = "loop"
     /\ cur > Len(dates)
     /\ summary' = Some(rate)
     /\ status' = Some(exit_code(rate, total_dates))
     /\ at' = "done"
     /\ UNCHANGED <<csv, extractvars, script, stored, dates, cur, cand,
                    fetched, resp, downloaded, extracted_data, wp, frame,
                    partial, successful_downloads>>

\* manual_test_script.py download_historical_data(): the summary divides by
\* total_dates; with no date the division raises.
SummaryManual ==
  LET total_dates == Len(dates)
  IN /\ script = "manual_test_script.py"
     /\ at = "loop"
     /\ cur > Len(dates)
     /\ IF total_dates = 0
        THEN /\ at' = "aborted"
             /\ status' = Some(1)
             /\ summary' = summary
        ELSE /\ summary' = Some(success_rate(successful_downloads, total_dates))
             /\ at' = "done"
             /\ status' = status
     /\ UNCHANGED <<csv, extractvars, script, stored, dates, cur, cand,
                    fetched, resp, downloaded, extracted_data, wp, frame,
                    partial, successful_downloads>>

NextRun ==
  \/ \E start_date \in RunDays, end_date \in RunDays : StartRun(start_date, end_date)
  \/ \E rates \in RunRates : UseStored(rates)
  \/ BeginDownload
  \/ \E r \in Responses, rates \in RunRates : TryUrl(r, rates)
  \/ NotFound
  \/ \E raises \in BOOLEAN : OpenCsv(raises)
  \/ \E raises \in BOOLEAN : WriteCsv(raises)
  \/ Return
  \/ Summary
  \/ SummaryManual

\* One run of main.py or of manual_test_script.py over a date range.
SpecRun == InitRun /\ [][NextRun]_vars

\* ============================================ main.py: the validator
\* A file is "large enough" above this many bytes.
MinSize == 1000

\* A file handed to check_pdf_validity: its size, whether PyPDF2 parses it
\* and with how many pages, and whether its first page holds a keyword of
\* the price sheet such as "reckoner".
PdfFiles ==
  [size : {0, 500, 1000, 1001, 50000}, parses : BOOLEAN, pages : {0, 1},
   keyword : BOOLEAN]

\* check_pdf_validity(pdf_path) on an existing file; available is
\* PDF_PROCESSING_AVAILABLE. A parse that raises gives False.
check_pdf_validity_doc(d, available) ==
  IF ~available THEN d.size > MinSize
  ELSE IF d.parses THEN d.pages > 0 ELSE FALSE

\* download_pdf: verify file was saved and has content.
saved_has_content(d) == d.size > MinSize

InitValidate ==
  /\ csv = [p \in PRODUCTS |-> NoFile]
  /\ call \in [op : {"check_pdf_validity"}, available : BOOLEAN]
  /\ doc \in {d \in PdfFiles : ~d.parses => d.pages = 0}
  /\ pc = "start"
  /\ product_rates = NoRates
  /\ invoked = <<>>
  /\ result = Pending
  /\ RunIdle

\* check_pdf_validity is called on the file.
Validate ==
  /\ pc = "start"
  /\ result' = Some(check_pdf_validity_doc(doc, call.available))
  /\ pc' = "validated"
  /\ UNCHANGED <<csv, call, doc, product_rates, invoked, runvars>>

\* download_pdf has saved the file and verifies it.
VerifySaved ==
  /\ pc = "start"
  /\ result' = Some(saved_has_content(doc))
  /\ pc' = "saved"
  /\ UNCHANGED <<csv, call, doc, product_rates, invoked, runvars>>

\* The two checks of main.py on any file.
SpecValidate == InitValidate /\ [][Validate \/ VerifySaved]_vars

\* ===================================================== url_checker.py
\* All URL formats checked for a date.
generate_urls_for_date(date) ==
  LET d == date.day
      y == date.year
      prr == "primary-ready-reckoner-"
  IN << Url("Upload/PDF", prr, Pad2(d), "-", MonthShort(date), y),
        Url("upload/pdf", prr, Pad2(d), "-", MonthShort(date), y),
        Url("Upload/PDF", prr, WithSuffix(d), "-", MonthShort(date), y),
        Url("upload/pdf", prr, WithSuffix(d), "-", MonthShort(date), y),
        Url("Upload/PDF", prr, Pad2(d), "-", MonthFull(date), y),
        Url("upload/pdf", prr, Pad2(d), "-", MonthFull(date), y),
        Url("Upload/PDF", prr, Pad2(d), "-", MonthNum(date), y),
        Url("upload/pdf", prr, Pad2(d), "-", MonthNum(date), y) >>

\* The (date, url) pairs of the dates from start_date to end_date.
RECURSIVE AllUrls(_, _)
AllUrls(current_date, end_date) ==
  IF current_date > end_date THEN <<>>
  ELSE LET urls == generate_urls_for_date(DateOf(current_date))
       IN [i \in 1..Len(urls) |-> [date |-> DateOf(current_date), url |-> urls[i]]]
          \o AllUrls(current_date + 1, end_date)

\* The number of URLs checked for one date.
NumForms == Len(generate_urls_for_date(DateOf(1)))

\* What the site answers to requests.head, per probe: status 200 for at
\* most two of the URLs; of the others, the odd ones get status 404 and for
\* the even ones requests raises (None).
Servers ==
  {[i \in 1..NumForms |->
      IF i \in found THEN Some(200) ELSE IF i % 2 = 1 THEN Some(404) ELSE None]
     : found \in {F \in SUBSET (1..NumForms) : Cardinality(F) <= 2}}

\* check_url(url): the url and the status code, None after an exception.
check_url(url, answer) == [url |-> url, status_code |-> answer]

\* (mutant) every probe that got an answer counts as available
IsAvailable_AnyStatus(status_code) == status_code # None

\* if status_code == 200
IsAvailable(status_code) == status_code = Some(200)

InitProbe ==
  /\ csv = [p \in PRODUCTS |-> NoFile]
  /\ call = NoCall
  /\ doc = None
  /\ pc = "run"
  /\ product_rates = NoRates
  /\ invoked = <<>>
  /\ result = Pending
  /\ script = "url_checker.py"
  /\ at = "generate"
  /\ stored = <<>>
  /\ dates = <<>>
  /\ cur = 0
  /\ cand = 0
  /\ fetched = <<>>
  /\ resp = None
  /\ downloaded = FALSE
  /\ extracted_data = None
  /\ wp = 0
  /\ frame = <<>>
  /\ partial = {}
  /\ successful_downloads = 0
  /\ summary = None
  /\ status = Pending
  /\ server \in Servers
  /\ all_urls = <<>>
  /\ futures = <<>>
  /\ yielded = {}
  /\ available_files = <<>>

mainvars == <<csv, call, doc, pc, product_rates, invoked, result, script,
              stored, dates, cur, cand, fetched, resp, downloaded,
              extracted_data, wp, frame, partial, successful_downloads,
              summary, status>>

\* Generate all URLs to check and submit one check_url per URL to the pool.
\* The range of dates is cut to its last day.
Submit(end_date) ==
  /\ at = "generate"
  /\ all_urls' = AllUrls(end_date, end_date)
  /\ futures' = [i \in 1..Len(all_urls') |-> Pending]
  /\ at' = "pool"
  /\ UNCHANGED <<mainvars, server, yielded, available_files>>

\* A worker thread runs check_url for one probe and its future completes.
CheckUrl(i) ==
  /\ at = "pool"
  /\ futures[i] = Pending
  /\ futures' = [futures EXCEPT ![i] = check_url(all_urls[i].url, server[i])]
  /\ UNCHANGED <<mainvars, at, server, all_urls, yielded, available_files>>

\* The caller's loop over as_completed gets one completed future.
AsCompleted(i) ==
  /\ at = "pool"
  /\ futures[i] # Pending
  /\ i \notin yielded
  /\ yielded' = yielded \cup {i}
  /\ available_files' =
       IF IsAvailable(futures[i].status_code)
       THEN Append(available_files,
                   [date |-> all_urls[i].date, url |-> futures[i].url,
                    status |-> futures[i].status_code])
       ELSE available_files
  /\ UNCHANGED <<mainvars, at, server, all_urls, futures>>

\* All futures were handled: the list is sorted by date and returned.
FinishProbe ==
  /\ at = "pool"
  /\ yielded = DOMAIN futures
  /\ available_files' = sort_values(available_files, "datetime")
  /\ at' = "done"
  /\ UNCHANGED <<mainvars, server, all_urls, futures, yielded>>

NextProbe ==
  \/ \E end_date \in Dates : Submit(end_date)
  \/ \E i \in DOMAIN futures : CheckUrl(i)
  \/ \E i \in DOMAIN futures : AsCompleted(i)
  \/ FinishProbe

\* url_checker.py check_recent_availability.
SpecProbe == InitProbe /\ [][NextProbe]_vars

\* ================================================================ claims
Ledger(p) == csv[p].rows
LedgerDates(p) == {Ledger(p)[i].date : i \in 1..Len(Ledger(p))}
Chrono(s, t) == DateLeq(to_datetime(s), to_datetime(t))

\* C1: after every update_csv_files, of either script and on dates in any
\* order, each product's ledger has no date twice and its rows are in
\* ascending date order.
C1_SortedUnique ==
  \A p \in PRODUCTS :
    \A i, j \in 1..Len(Ledger(p)) :
      i < j => /\ Ledger(p)[i].date # Ledger(p)[j].date
               /\ Chrono(Ledger(p)[i].date, Ledger(p)[j].date)

\* A ledger that holds every date of the range, the year's end included.
C1_Witness ==
  \E p \in PRODUCTS :
    /\ Len(Ledger(p)) = MaxDate
    /\ LedgerDates(p) = {date_str(d) : d \in Dates}


\* ----------------------------------------------------- ledgers, C2 to C7
\* The row of date text s in a frame, and the rows dated before s.
RowOf(df, s) == df[CHOOSE i \in 1..Len(df) : df[i].date = s]
Before(df, s) == {i \in 1..Len(df) : df[i].date # s /\ Chrono(df[i].date, s)}
\* The most recent row dated strictly before s.
PriorRow(df, s) ==
  df[CHOOSE i \in Before(df, s) : \A j \in Before(df, s) : Chrono(df[j].date, df[i].date)]
LedgerDatesAfter(p) == {csv'[p].rows[i].date : i \in 1..Len(csv'[p].rows)}

\* C2: every run leaves, in every product's ledger, the rows it had and a
\* row for the date it was asked to process, also when acquisition or
\* extraction failed (no gaps).
C2_NoGaps ==
  [][\A p \in PRODUCTS :
       /\ LedgerDates(p) \subseteq LedgerDatesAfter(p)
       /\ date_str(call'.today) \in LedgerDatesAfter(p)]_vars

\* C3: a call whose reads succeed, for a date D with no row and a product
\* with no extracted value, gives D the rate of the most recent entry dated
\* strictly before D (when there is one), never that of a later entry.
C3_ForwardFillFromPrior ==
  [][\A p \in PRODUCTS :
       LET D == date_str(call'.date)
       IN (/\ call'.readfail = {}
           /\ p \notin DOMAIN call'.rates
           /\ ~HasDate(Ledger(p), D)
           /\ Before(Ledger(p), D) # {})
          => /\ HasDate(csv'[p].rows, D)
             /\ RowOf(csv'[p].rows, D).rate = PriorRow(Ledger(p), D).rate]_vars

\* C4: update_csv_files for a date D, a product with no extracted value and
\* a ledger with no entry yet creates the row of D with the fallback rate 0.
C4_FallbackRow ==
  [][\A p \in PRODUCTS :
       LET D == date_str(call'.date)
       IN (/\ call'.source # "none"
           /\ call'.extracted # None
           /\ p \notin DOMAIN call'.extracted.val.rates
           /\ Ledger(p) = <<>>)
          => /\ HasDate(csv'[p].rows, D)
             /\ RowOf(csv'[p].rows, D).rate = 0]_vars

\* C5: when the ledger has a row for D, the call sets its rate to the
\* product's reading if there is one, and leaves the row as it is if not.
C5_OverwriteOnlyWithReading ==
  [][\A p \in PRODUCTS :
       LET D == date_str(call'.date)
       IN HasDate(Ledger(p), D)
          => /\ HasDate(csv'[p].rows, D)
             /\ RowOf(csv'[p].rows, D).rate =
                  IF p \in DOMAIN call'.rates THEN call'.rates[p]
                  ELSE RowOf(Ledger(p), D).rate]_vars

\* C6: update_csv_files called again with the same date and the same
\* extracted values leaves every ledger as the first call left it.
C6_Idempotent ==
  [][(/\ call.op = "process_date"
      /\ call'.date = call.date
      /\ call'.rates = call.rates)
     => csv' = csv]_vars

\* C7: no call removes a date from a ledger, also when reading the file
\* fails.
C7_NeverDeleted ==
  [][\A p \in PRODUCTS : LedgerDates(p) \subseteq LedgerDatesAfter(p)]_vars


\* ------------------------------------------------ extraction, C8 to C10
Ran(strategy) == \E i \in 1..Len(invoked) : invoked[i] = strategy
Returned == pc = "done" /\ result # None /\ result # Pending

\* What each strategy resolved in this run, in the pipeline's order.
ResolvedBy(strategy) ==
  IF ~Ran(strategy) THEN NoRates
  ELSE IF strategy = "direct" THEN doc.direct
  ELSE IF strategy = "tabula" THEN (IF doc.tabula.raises THEN NoRates ELSE doc.tabula.rates)
  ELSE IF strategy = "text" THEN doc.text
  ELSE doc.manual.rates
Order == <<"direct", "tabula", "text", "manual">>
Resolvers(p) == {i \in 1..4 : p \in DOMAIN ResolvedBy(Order[i])}
FirstResolver(p) == CHOOSE i \in Resolvers(p) : \A j \in Resolvers(p) : i <= j

\* C8 as stated: the final value of a product is the value of the first
\* strategy, in the order direct, table, text search, line scan, that
\* resolved it.
C8_FirstWins ==
  Returned =>
    \A p \in PRODUCTS :
      Resolvers(p) # {} =>
        result.val.rates[p] = ResolvedBy(Order[FirstResolver(p)])[p]

\* C8 amended: the final value of a product is the table strategy's value
\* when that strategy ran and resolved it, and otherwise the value of the
\* first of direct, text search and line scan that resolved it: only the
\* table strategy overwrites (the direct strategy's values).
C8_TableThenFirstWins ==
  Returned =>
    \A p \in PRODUCTS :
      Resolvers(p) # {} =>
        result.val.rates[p] =
          IF 2 \in Resolvers(p) THEN ResolvedBy("tabula")[p]
          ELSE ResolvedBy(Order[FirstResolver(p)])[p]

\* A run in which the table strategy replaced a direct value, and text
\* search then found another value for the same product.
C8_Witness ==
  /\ Returned
  /\ \E p \in PRODUCTS :
       /\ {1, 2, 3} \subseteq Resolvers(p)
       /\ ResolvedBy("direct")[p] # ResolvedBy("tabula")[p]
       /\ ResolvedBy("text")[p] # ResolvedBy("tabula")[p]
       /\ result.val.rates[p] = ResolvedBy("tabula")[p]

\* C9: extract_data_from_pdf returns a mapping for every document, and the
\* mapping holds every value a strategy has resolved.
C9_NeverFails ==
  pc = "done" =>
    /\ result # None
    /\ \A p \in DOMAIN product_rates : result.val.rates[p] = product_rates[p]

\* The numbers some strategy reads in the document.
DocNumbers ==
  UNION {{m[p] : p \in DOMAIN m} :
           m \in {doc.direct, doc.tabula.rates, doc.text, doc.manual.rates}}

\* C10: every returned value is a number of the document, and nothing is
\* returned for a product when no strategy resolved any.
C10_OnlyDocumentNumbers ==
  Returned =>
    /\ \A p \in DOMAIN result.val.rates : result.val.rates[p] \in DocNumbers
    /\ (\A p \in PRODUCTS : Resolvers(p) = {}) => result.val.rates = NoRates


\* ------------------------------------------------------------ acquisition
\* The date whose candidates are being fetched.
InDate == at \in {"fetch", "update", "write", "aborted"} /\ cur \in 1..Len(dates)
TheDate == DateOf(dates[cur])

\* C11: for one date the candidates are fetched in the fixed order, the
\* canonical URL first and then the alternatives in their order; every fetch
\* but the last one failed, so nothing is fetched after the first success and
\* a candidate is fetched only after all earlier candidates have failed.
C11_OrderedShortCircuit ==
  InDate =>
    /\ \A i \in 1..Len(fetched) :
         fetched[i].url = IF i = 1 THEN get_pdf_url(TheDate)
                          ELSE get_alternative_pdf_urls(TheDate)[i - 1]
    /\ \A i \in 1..(Len(fetched) - 1) : ~fetched[i].ok

\* The third candidate succeeded after the first two had failed.
C11_Witness ==
  /\ at = "update"
  /\ Len(fetched) = 3
  /\ fetched[3].ok
  /\ ~fetched[1].ok /\ ~fetched[2].ok

\* The last business day before day n (Saturday and Sunday skipped).
PriorBusinessDay(n) ==
  CHOOSE m \in (n - 3)..(n - 1) :
    /\ weekday(DateOf(m)) < 5
    /\ \A k \in (m + 1)..(n - 1) : weekday(DateOf(k)) >= 5

\* process_date found no document for the date.
ReportsNotFound == at = "update" /\ cur \in 1..Len(dates) /\ ~downloaded

\* C12: when every candidate of the target date failed, the whole candidate
\* list of the prior business day has been fetched as well, once, before
\* no document is reported.
C12_PriorBusinessDayRetried ==
  ReportsNotFound =>
    LET prior == DateOf(PriorBusinessDay(dates[cur]))
        n == Len(urls_to_try(TheDate))
    IN /\ Len(fetched) = n + Len(urls_to_try(prior))
       /\ \A i \in 1..Len(urls_to_try(prior)) :
            fetched[n + i].url = urls_to_try(prior)[i]

\* A fetch that failed in an ordinary way: an exception of requests (network
\* error, timeout, non-success status), or a body that does not start with
\* the PDF signature.
OrdinaryFailure(r) == r.raises \/ ~r.sig_pdf

\* C13: a candidate whose fetch failed in an ordinary way is a failed
\* candidate and nothing is raised; no document is reported only after
\* every candidate has been tried and has failed.
C13_FailuresAreFailedCandidates ==
  /\ (InDate /\ fetched # <<>> /\ OrdinaryFailure(resp))
       => ~fetched[Len(fetched)].ok
  /\ ReportsNotFound =>
       /\ Len(fetched) = Len(urls_to_try(TheDate))
       /\ \A i \in 1..Len(fetched) : ~fetched[i].ok

\* C14: when main_py.py finds no document for day D and finds the one of
\* D-1, every product with an extracted value has afterwards a row for D
\* and a row for D-1, both with that value.
C14_FallbackDayFillsBoth ==
  [][(call'.source = "yesterday" /\ call'.extracted # None)
       => \A p \in DOMAIN call'.extracted.val.rates :
            LET rows == csv'[p].rows
                D == date_str(call'.today)
                D1 == date_str(call'.today - 1)
            IN /\ HasDate(rows, D1)
               /\ RowOf(rows, D1).rate = call'.extracted.val.rates[p]
               /\ HasDate(rows, D)
               /\ RowOf(rows, D).rate = call'.extracted.val.rates[p]]_vars

\* ------------------------------------------------------------ persistence
\* C15: a failure while writing one product's ledger does not end the run:
\* the other products of the date and the later dates are still processed.
C15_WriteFailureIsolated ==
  ~(at = "aborted" /\ wp \in PRODUCTS)

\* C16: no ledger file is ever visible empty or half-written: what is on
\* disk is the complete old ledger or the complete new one.
C16_AtomicPersist ==
  \A p \in PRODUCTS : p \notin partial

\* ---------------------------------------------------------------- the run
\* C17: a date whose document is stored and valid is processed without any
\* fetch: extraction and then update_csv_files run on the stored document.
C17_StoredSkipsFetch ==
  [][LET usesStored == at = "loop" /\ cur \in 1..Len(dates)
                       /\ stored[dates[cur]] = "valid"
         updating == at \in {"update", "write"} /\ fetched = <<>>
     IN /\ usesStored => /\ at' = "update"
                          /\ fetched' = <<>>
                          /\ downloaded'
                          /\ wp' = 1
                          /\ extracted_data' # None
                          /\ extracted_data'.date = date_str(dates[cur])
        /\ updating => fetched' = <<>>]_vars

\* A stored document was used, without a fetch, and its values are written to
\* the ledgers.
C17_Witness ==
  /\ at = "update"
  /\ wp \notin PRODUCTS
  /\ downloaded
  /\ fetched = <<>>
  /\ \A p \in PRODUCTS :
       /\ HasDate(csv[p].rows, extracted_data.date)
       /\ RowOf(csv[p].rows, extracted_data.date).rate = 11

\* C18: the dates of a run are in ascending order, each once, and none is a
\* Saturday or a Sunday; no ledger has a row for a Saturday or a Sunday.
C18_WeekdaysOnly ==
  /\ \A i \in 1..Len(dates) :
       /\ weekday(DateOf(dates[i])) < 5
       /\ \A j \in 1..(i - 1) : dates[j] < dates[i]
  /\ \A p \in PRODUCTS : \A n \in RunDays :
       HasDate(csv[p].rows, date_str(n)) => weekday(DateOf(n)) < 5

\* The dates of the run for which a document was acquired so far.
Acquired == successful_downloads + (IF InDate /\ downloaded THEN 1 ELSE 0)

\* C19: the exit status of main.py is non-zero exactly when the date list is
\* not empty and no date had a successful acquisition.
C19_ExitStatus ==
  (script = "main.py" /\ status # Pending)
    => (status.val # 0 <=> (Len(dates) > 0 /\ Acquired = 0))

\* C20: the summary of a run over zero dates shows a success rate of 100%.
C20_ZeroDatesFullRate ==
  (at = "done" /\ Len(dates) = 0)
    => summary.val.num = 100 * summary.val.den

\* Every ledger has a row for every date of the run.
LedgersUpToDate ==
  \A p \in PRODUCTS : \A i \in 1..Len(dates) :
    HasDate(csv[p].rows, date_str(dates[i]))

\* C21: a run of main.py in which no date gave a document, and which
\* brought every ledger up to date, ends with exit status zero; the status
\* is non-zero only when writing the ledgers failed.
C21_ForwardFilledRunExitsZero ==
  /\ (script = "main.py" /\ at = "done" /\ successful_downloads = 0
        /\ LedgersUpToDate) => status.val = 0
  /\ (script = "main.py" /\ status # Pending /\ status.val # 0)
        => at = "aborted"

\* -------------------------------------------------------------- validator
\* C22: check_pdf_validity accepts a file only if it has the minimum size,
\* parses with at least one page and holds a keyword; it rejects a file of
\* 500 bytes without a keyword, accepts a file of 50,000 bytes that parses
\* and holds the keyword, and rejects a file that does not parse.
C22_ValidatorChecks ==
  pc = "validated" =>
    /\ result.val => (doc.size >= MinSize /\ doc.parses /\ doc.pages >= 1
                       /\ doc.keyword)
    /\ (doc.size = 500 /\ ~doc.keyword) => ~result.val
    /\ (doc.size = 50000 /\ doc.keyword /\ doc.parses /\ doc.pages >= 1)
         => result.val
    /\ (call.available /\ ~doc.parses) => ~result.val

\* The file at save_path of the date in process does not pass
\* check_pdf_validity, and update_csv_files has been reached.
DocumentInvalid ==
  /\ InDate
  /\ at \in {"update", "write"}
  /\ stored[dates[cur]] = "invalid"

\* C23: a document that fails validation is handled as no document: the
\* branch that extracts and returns True is not taken (downloaded is false)
\* and update_csv_files gets an empty value map.
C23_InvalidIsNotFound ==
  DocumentInvalid => (~downloaded /\ extracted_data.rates = NoRates)

\* ------------------------------------------------------------ url_checker
\* The (date, url) entries of a list of available files.
Entries(files) == {[date |-> files[i].date, url |-> files[i].url] : i \in 1..Len(files)}

\* The probes whose check_url returned status 200.
Returned200 == {i \in DOMAIN futures : futures[i] # Pending /\ futures[i].status_code = Some(200)}

\* C26: a worker's check_url changes nothing but its own future; the caller
\* alone builds available_files, and in whatever order the probes complete
\* and are handed over, the final list holds exactly the (date, url) pairs
\* of the probes that returned status 200, each once.
C26_CallerAggregates ==
  [][LET worker == at = "pool" /\ futures' # futures
         done == at' = "done"
     IN /\ worker => (available_files' = available_files /\ yielded' = yielded)
        /\ done => /\ Entries(available_files') = {all_urls[i] : i \in Returned200}
                    /\ Len(available_files') = Cardinality(Returned200)]_vars

\* Two probes returned 200 and were handed to the caller in the order
\* opposite to their submission.
C26_Witness ==
  /\ at = "done"
  /\ Len(available_files) = 2
  /\ \E i, j \in Returned200 :
       /\ i < j
       /\ available_files[1].url = all_urls[j].url
       /\ available_files[2].url = all_urls[i].url

\* ----------------------------------------------------------- candidate URLs
\* The canonical URL of a date, written out: directory Upload/PDF, the day
\* as two digits, the month as three lower-case letters, the year.
CanonicalForm(date) ==
  [dir |-> "Upload/PDF", stem |-> "primary-ready-reckoner-",
   day |-> [digits |-> <<48 + (date.day \div 10), 48 + (date.day % 10)>>,
            suffix |-> ""],
   sep |-> "-", month |-> IF date.month = 12 THEN "dec" ELSE "jan",
   year |-> date.year]

\* The days of the calendar, from Monday 2024-12-30 on.
CalendarDays == 0..(MaxDate + 3)

\* C24: the candidate list depends on the date alone: for every date the
\* lists of main.py and of url_checker.py are not empty and begin with the
\* canonical form, and whenever a run fetches for a date, its i-th fetch is
\* the i-th URL of that date's list.
C24_DeterministicCanonicalFirst ==
  /\ \A n \in CalendarDays :
       /\ Len(urls_to_try(DateOf(n))) >= 1
       /\ urls_to_try(DateOf(n))[1] = CanonicalForm(DateOf(n))
       /\ Len(generate_urls_for_date(DateOf(n))) >= 1
       /\ generate_urls_for_date(DateOf(n))[1] = CanonicalForm(DateOf(n))
  /\ (InDate /\ fetched # <<>>) =>
       /\ fetched[1].url = CanonicalForm(TheDate)
       /\ \A i \in 1..Len(fetched) : fetched[i].url = urls_to_try(TheDate)[i]

\* The canonical URL of a day below 10 was fetched, its day zero-padded,
\* and other candidates after it.
C24_Witness ==
  /\ InDate
  /\ Len(fetched) >= 2
  /\ TheDate.day < 10
  /\ fetched[1].url.day.digits = <<48, 48 + TheDate.day>>

\* --------------------------------------------------------- plausible prices
\* The range of a price: the numbers of 5 or 6 digits.
PlausibleMin == 10000
PlausibleMax == 999999

\* C25: every value extract_data_from_pdf returns, whichever strategy
\* produced it, lies inside the plausible price range.
C25_PlausiblePrices ==
  Returned =>
    \A p \in DOMAIN result.val.rates :
      /\ PlausibleMin <= result.val.rates[p]
      /\ result.val.rates[p] <= PlausibleMax

\* ------------------------------------------------------------- early stop
\* The products with a value after the first k strategies that were invoked.
ResolvedUpTo(k) == UNION {DOMAIN ResolvedBy(invoked[j]) : j \in 1..k}

\* C27: a strategy is invoked only while a product is unresolved: when the
\* strategies before it have given every product a value, it is not
\* invoked; and the strategies are invoked in the pipeline's order.
C27_StopsEarly ==
  /\ \A k \in 2..Len(invoked) : ResolvedUpTo(k - 1) # PRODUCTS
  /\ \A k \in 1..Len(invoked) : invoked[k] = Order[k]

\* The table strategy completed what the direct one had left; text search
\* and line scan, which would have found values, were not invoked.
C27_Witness ==
  /\ Returned
  /\ invoked = <<"direct", "tabula">>
  /\ doc.direct # NoRates
  /\ doc.text # NoRates
  /\ doc.manual.rates # NoRates

\* ------------------------------------------------------------ frame effect
\* C28: update_csv_files for a date D leaves, in every product's ledger,
\* every existing row of another date with the rate it had, whether or not
\* the product has an extracted value.
C28_OtherRowsKept ==
  [][\A p \in PRODUCTS :
       \A i \in 1..Len(Ledger(p)) :
         Ledger(p)[i].date # date_str(call'.date)
           => /\ HasDate(csv'[p].rows, Ledger(p)[i].date)
              /\ RowOf(csv'[p].rows, Ledger(p)[i].date).rate = Ledger(p)[i].rate]_vars

\* ------------------------------------------------- the file at save_path
\* C29: after download_pdf returned True there is a file at save_path, and
\* after it returned False there is none.
C29_FileOnlyOnSuccess ==
  (InDate /\ fetched # <<>>) =>
    LET last == fetched[Len(fetched)]
    IN /\ last.ok => stored[dates[cur]] # "none"
       /\ ~last.ok => stored[dates[cur]] = "none"

\* ------------------------------------------------------------ termination
\* The candidates of the date being processed, in the order of the list.
Candidates == <<get_pdf_url(TheDate)>> \o get_alternative_pdf_urls(TheDate)
NumCandidates == 16

\* A stored document, or the document of the last fetch, was used.
DocumentUsed ==
  IF fetched = <<>> THEN stored[dates[cur]] = "valid"
  ELSE fetched[Len(fetched)].ok

\* How far the processing of the current date has come, and the most it
\* can come to.
MaxRank == NumCandidates + 2 * Cardinality(PRODUCTS) + 3
Rank ==
  CASE at \in {"start", "loop"} -> 0
    [] at = "fetch" -> cand
    [] at = "update" -> NumCandidates + 2 * wp
    [] at = "write" -> NumCandidates + 2 * wp + 1
    [] OTHER -> MaxRank

\* Every step moves on to the next date or further within the date.
Advances == cur' > cur \/ (cur' = cur /\ Rank' > Rank)

\* A fetch is of the next entry of the list, which has 16 entries.
FetchesNextEntry ==
  fetched' \notin {fetched, <<>>}
    => /\ Len(fetched') = Len(fetched) + 1
       /\ Len(fetched') <= NumCandidates
       /\ \A i \in 1..Len(fetched) : fetched'[i] = fetched[i]
       /\ fetched'[Len(fetched')].url = Candidates[Len(fetched')]

\* update_csv_files is started from the stored document, from a download
\* or after the last candidate, and once started it is not started again
\* for the date.
UpdatesOnce ==
  /\ (at \in {"loop", "fetch"} /\ at' = "update")
       => /\ wp' = 1
          /\ extracted_data'.date = date_str(dates[cur])
  /\ at \in {"update", "write"}
       => \/ at' \in {"update", "write", "aborted"} /\ cur' = cur
          \/ at' = "loop" /\ cur' = cur + 1

\* process_date returns after update_csv_files, and True exactly when a
\* document was used.
ReturnsUsed ==
  (cur >= 1 /\ cur' = cur + 1)
    => /\ at = "update"
       /\ wp \notin PRODUCTS
       /\ successful_downloads' =
            successful_downloads + (IF DocumentUsed THEN 1 ELSE 0)

ProcessedDates == IF cur = 0 THEN 0 ELSE cur - 1

\* C30: process_date ends for every date (every step advances a measure
\* that is bounded above): it fetches each entry of the list of 16
\* candidates at most once, starts update_csv_files exactly once, and
\* returns True exactly when a stored or a downloaded document was used;
\* successful_downloads is never above the number of dates processed.
C30_ProcessDateTerminates ==
  /\ [](/\ Len(fetched) <= NumCandidates
        /\ Rank <= MaxRank
        /\ successful_downloads <= ProcessedDates
        /\ ProcessedDates <= Len(dates))
  /\ [][Advances /\ FetchesNextEntry /\ UpdatesOnce /\ ReturnsUsed]_vars

\* A run in which one date used a document and the next one returns False
\* after all 16 candidates failed.
C30_Witness ==
  /\ at = "update"
  /\ wp \notin PRODUCTS
  /\ cur = 2
  /\ successful_downloads = 1
  /\ Len(fetched) = NumCandidates
  /\ ~downloaded

====
